---- MODULE Spec2Model ----
(***************************************************************************)
(* protoss: schema evolution of zero-copy archived records.                *)
(*                                                                         *)
(* The model has five parts.                                               *)
(*  - The layout part computes #[repr(C)] struct layouts (offsets, size,   *)
(*    alignment) from field declarations, with the zero-size PadToAlign    *)
(*    marker after each version's fields.                                  *)
(*  - The probing part is a state machine over one owned object at a time  *)
(*    (a Pylon, a boxed probe, an archive holding an ArchivedEvolution, or *)
(*    a plain archived version value), a borrowed probe view of it, and    *)
(*    the result of the last call.                                         *)
(*  - The owned-container part (OwnedSpec) runs Pylon and Proto over a     *)
(*    declared line of evolutions, zero-sized ones included, with a ledger *)
(*    of the destructors run on the value they hold.                       *)
(*  - The builder part (PartialSpec) runs the derive output for a          *)
(*    composite struct: partial_vN constructors, boxed parts, their field  *)
(*    accessors and their Drop, with the strong count of a shared Rc.      *)
(*  - The derive part (DeriveSpec) runs collect_versions of the #[protoss]  *)
(*    macro over a struct declaration, field by field.                     *)
(***************************************************************************)
EXTENDS Integers, Sequences, FiniteSets, TLC

VARIABLES
    obj,      \* the owned object currently alive (tagged record), or NoObj
    view,     \* the borrowed probe (a fat pointer: probe type + length) or NoView
    last,     \* the last call and what it returned
    line,     \* the evolving record being declared, a sequence of field groups
    heap      \* what destructors have done: the strong count of the one reference-counted
              \* handle the program clones into fields, and how many times the destructor
              \* of the value constructed last has run

vars == <<obj, view, last, line, heap>>

----------------------------------------------------------------------------
(* Bounds *)

MaxEvolutions == 2      \* evolutions per declared line (layout part)
MaxGroupFields == 2     \* fields one evolution may append (layout part)
MaxFieldValues == 1     \* how many different values a caller may write into one field
MaxMinor == 3           \* version tokens asked of probe_metadata have minor 0..MaxMinor
MaxMajor == 2           \* ... and major 0..MaxMajor
MaxDeclFields == 3      \* named fields of a struct handed to the derive macro
MaxVersionAttr == 1     \* `#[version = n]` literals are 0..MaxVersionAttr

----------------------------------------------------------------------------
(* Layout: #[repr(C)] *)

Max(a, b) == IF a >= b THEN a ELSE b

RoundUp(n, align) == ((n + align - 1) \div align) * align

\* primitive archived field types: size and alignment
TyUnit == [size |-> 0, align |-> 1]
TyU8 == [size |-> 1, align |-> 1]
TyU32 == [size |-> 4, align |-> 4]

RECURSIVE MaxAlign(_)
MaxAlign(tys) ==
    IF tys = << >> THEN 1
    ELSE Max(tys[Len(tys)].align, MaxAlign(SubSeq(tys, 1, Len(tys) - 1)))

\* a marker that does not take the alignment of the fields before it
PadToAlign_Unaligned(tys) == [size |-> 0, align |-> 1]

\* PadToAlign<(T1, .., Tn)>([T; 0]): zero size, the alignment of the tuple
PadToAlign(tys) == [size |-> 0, align |-> MaxAlign(tys)]

\* offset of the k-th field of a #[repr(C)] struct and the end of that field
RECURSIVE OffsetOf(_, _)
OffsetOf(fields, k) ==
    IF k = 1 THEN 0
    ELSE RoundUp(OffsetOf(fields, k - 1) + fields[k - 1].size, fields[k].align)

EndOf(fields, k) == IF k = 0 THEN 0 ELSE OffsetOf(fields, k) + fields[k].size

AlignOf(fields) == MaxAlign(fields)

SizeOf(fields) == RoundUp(EndOf(fields, Len(fields)), AlignOf(fields))

RECURSIVE Flatten(_)
Flatten(groups) ==
    IF groups = << >> THEN << >>
    ELSE Flatten(SubSeq(groups, 1, Len(groups) - 1)) \o groups[Len(groups)]

\* the fields of evolutions 1..n with no marker between the groups
EvolutionDecl_NoMarker(groups, n) == Flatten(SubSeq(groups, 1, n))

\* the archived struct of evolution n (1-based) of a line: each group's fields
\* followed by a PadToAlign marker over all the fields declared so far
RECURSIVE EvolutionDecl(_, _)
EvolutionDecl(groups, n) ==
    IF n = 0 THEN << >>
    ELSE EvolutionDecl(groups, n - 1) \o groups[n]
             \o <<PadToAlign(Flatten(SubSeq(groups, 1, n)))>>

----------------------------------------------------------------------------
(* The archived version structs of protoss_test (mod shared) *)

ArchivedTestV0_0 == <<TyU32, TyU8, PadToAlign(<<TyU32, TyU8>>)>>

ArchivedTestV0_1 ==
    <<TyU32, TyU8, PadToAlign(<<TyU32, TyU8>>),
      TyU32, PadToAlign(<<TyU32, TyU8, TyU32>>)>>

ArchivedTestV0_2 ==
    <<TyU32, TyU8, PadToAlign(<<TyU32, TyU8>>),
      TyU32, PadToAlign(<<TyU32, TyU8, TyU32>>),
      TyU8, PadToAlign(<<TyU32, TyU8, TyU32, TyU8>>)>>

ArchivedTestV1_0 == <<TyU32, TyU32, PadToAlign(<<TyU32, TyU32>>)>>

Evolutions == {"V0_0", "V0_1", "V0_2", "V1_0"}

\* the evolutions of the line being declared (variable `line`), oldest first, and the
\* field each one appends: evolution n of the line is LineEvolutions[n], minor n - 1
LineEvolutions == <<"L0_0", "L0_1", "L0_2", "L0_3">>

LineFields == <<"f0", "f1", "f2", "f3">>

LineIndex(ev) == CHOOSE n \in 1..Len(LineEvolutions) : LineEvolutions[n] = ev

StructOf(ev) ==
    CASE ev = "V0_0" -> ArchivedTestV0_0
      [] ev = "V0_1" -> ArchivedTestV0_1
      [] ev = "V0_2" -> ArchivedTestV0_2
      [] ev = "V1_0" -> ArchivedTestV1_0
      [] OTHER -> EvolutionDecl(line, LineIndex(ev))

\* the named (non-marker) fields of each struct: name -> index in the declaration
\* (a declared line appends one field per evolution, each followed by its marker)
NamedFields(ev) ==
    CASE ev = "V0_0" -> [a |-> 1, b |-> 2]
      [] ev = "V0_1" -> [a |-> 1, b |-> 2, c |-> 4]
      [] ev = "V0_2" -> [a |-> 1, b |-> 2, c |-> 4, d |-> 6]
      [] ev = "V1_0" -> [a |-> 1, b |-> 2]
      [] OTHER -> [f \in {LineFields[k] : k \in 1..LineIndex(ev)} |->
                     2 * (CHOOSE k \in 1..LineIndex(ev) : LineFields[k] = f) - 1]

\* core::mem::size_of::<V>() and the field offsets of each version struct, as the
\* compiler lays them out
SizeTable == [ev \in Evolutions |-> SizeOf(StructOf(ev))]

OffsetTable ==
    [ev \in Evolutions |->
        [n \in DOMAIN NamedFields(ev) |-> OffsetOf(StructOf(ev), NamedFields(ev)[n])]]

size_of(ev) == IF ev \in Evolutions THEN SizeTable[ev] ELSE SizeOf(StructOf(ev))

FieldOffset(ev, name) ==
    IF ev \in Evolutions THEN OffsetTable[ev][name]
    ELSE OffsetOf(StructOf(ev), NamedFields(ev)[name])

FieldSize(ev, name) == StructOf(ev)[NamedFields(ev)[name]].size

----------------------------------------------------------------------------
(* Bytes *)

Uninit == -1     \* a padding byte, or a byte of MaybeUninit storage never written

Pow256(n) == IF n = 0 THEN 1 ELSE IF n = 1 THEN 256 ELSE IF n = 2 THEN 65536 ELSE 16777216

\* the in-memory (little-endian) bytes of an integer field
ToBytes(val, size) == [i \in 1..size |-> (val \div Pow256(i - 1)) % 256]

RECURSIVE FromBytesAt(_, _)
FromBytesAt(bytes, i) ==
    IF i > Len(bytes) THEN 0 ELSE bytes[i] + 256 * FromBytesAt(bytes, i + 1)

FromBytes(bytes) == FromBytesAt(bytes, 1)

\* the memory of an archived version struct holding the given field values:
\* each named field at its offset, every other byte is padding
ArchivedValue(ev, vals) ==
    [i \in 1..size_of(ev) |->
        IF \E n \in DOMAIN NamedFields(ev) :
              /\ FieldOffset(ev, n) < i
              /\ i <= FieldOffset(ev, n) + FieldSize(ev, n)
        THEN LET n == CHOOSE n \in DOMAIN NamedFields(ev) :
                        /\ FieldOffset(ev, n) < i
                        /\ i <= FieldOffset(ev, n) + FieldSize(ev, n)
             IN ToBytes(vals[n], FieldSize(ev, n))[i - FieldOffset(ev, n)]
        ELSE Uninit]

\* values a caller may write into each field
BaseValue(name) ==
    CASE name = "a" -> 1 [] name = "b" -> 2 [] name = "c" -> 259 [] name = "d" -> 4
      [] name = "f0" -> 11 [] name = "f1" -> 21 [] name = "f2" -> 31 [] name = "f3" -> 41

FieldValues(name) == BaseValue(name)..(BaseValue(name) + MaxFieldValues - 1)

ValuesOf(ev) ==
    {vals \in [DOMAIN NamedFields(ev) -> UNION {FieldValues(n) : n \in DOMAIN NamedFields(ev)}] :
        \A n \in DOMAIN NamedFields(ev) : vals[n] \in FieldValues(n)}

----------------------------------------------------------------------------
(* The Evolving bindings of protoss_test: mod v1, mod v2, mod v3 *)

Bindings == {"v1", "v2", "v3"}

Version(major, minor) == [major |-> major, minor |-> minor]

VersionTokens == {Version(ma, mi) : ma \in 0..MaxMajor, mi \in 0..MaxMinor}

Ok(v) == [ok |-> TRUE, val |-> v]
Err(e) == [ok |-> FALSE, err |-> e]
Some(v) == [some |-> TRUE, val |-> v]
None == [some |-> FALSE]

\* the types with an `unsafe impl VersionOf<Test>` in each binding
Registered(E) ==
    CASE E = "v1" -> {"V0_0", "V0_1"}
      [] E = "v2" -> {"V0_0", "V0_1", "V0_2"}
      [] E = "v3" -> {"V0_0", "V0_1", "V0_2", "V1_0"}
      [] E = "line" -> {LineEvolutions[n] : n \in 1..Len(line)}

\* VersionOf::VERSION
VERSION(ev) ==
    CASE ev = "V0_0" -> Version(0, 0)
      [] ev = "V0_1" -> Version(0, 1)
      [] ev = "V0_2" -> Version(0, 2)
      [] ev = "V1_0" -> Version(1, 0)
      [] OTHER -> Version(0, LineIndex(ev) - 1)

\* VersionOf::ProbedBy
ProbedBy(ev) ==
    CASE ev = "V1_0" -> "TestProbeMajor1"
      [] ev \in Evolutions -> "TestProbeMajor0"
      [] OTHER -> "LineProbeMajor0"

\* ProbeOf::PROBES_MAJOR_VERSION
PROBES_MAJOR_VERSION(probe) == IF probe = "TestProbeMajor1" THEN 1 ELSE 0

\* Evolving::LatestVersion
LatestVersion(E) ==
    CASE E = "v1" -> "V0_1" [] E = "v2" -> "V0_2" [] E = "v3" -> "V1_0"
      [] E = "line" -> LineEvolutions[Len(line)]

\* Evolving::LatestProbe
LatestProbe(E) ==
    CASE E = "v3" -> "TestProbeMajor1"
      [] E = "line" -> "LineProbeMajor0"
      [] OTHER -> "TestProbeMajor0"

\* the probe types each binding declares
ProbesOf(E) == IF E = "v3" THEN {"TestProbeMajor0", "TestProbeMajor1"} ELSE {"TestProbeMajor0"}

\* the arm of (0, 0) answering with the end of the last field, before the padding
v1_probe_metadata_Unpadded(version) ==
    CASE version = Version(0, 0) -> Ok(FieldOffset("V0_0", "b") + FieldSize("V0_0", "b"))
      [] version = Version(0, 1) -> Ok(size_of("V0_1"))
      [] OTHER -> Err("TriedToGetProbeMetadataForNonExistentVersion")

\* Evolving::probe_metadata, one definition per binding
v1_probe_metadata(version) ==
    CASE version = Version(0, 0) -> Ok(size_of("V0_0"))
      [] version = Version(0, 1) -> Ok(size_of("V0_1"))
      [] OTHER -> Err("TriedToGetProbeMetadataForNonExistentVersion")

\* the arm of the newest version left out
v2_probe_metadata_MissingArm(version) ==
    CASE version = Version(0, 0) -> Ok(size_of("V0_0"))
      [] version = Version(0, 1) -> Ok(size_of("V0_1"))
      [] OTHER -> Err("TriedToGetProbeMetadataForNonExistentVersion")

v2_probe_metadata(version) ==
    CASE version = Version(0, 0) -> Ok(size_of("V0_0"))
      [] version = Version(0, 1) -> Ok(size_of("V0_1"))
      [] version = Version(0, 2) -> Ok(size_of("V0_2"))
      [] OTHER -> Err("TriedToGetProbeMetadataForNonExistentVersion")

\* the arm of (0, 2) answering with the size of the version before it
v3_probe_metadata_StaleArm(version) ==
    CASE version = Version(0, 0) -> Ok(size_of("V0_0"))
      [] version = Version(0, 1) -> Ok(size_of("V0_1"))
      [] version = Version(0, 2) -> Ok(size_of("V0_1"))
      [] version = Version(1, 0) -> Ok(size_of("V1_0"))
      [] OTHER -> Err("TriedToGetProbeMetadataForNonExistentVersion")

v3_probe_metadata(version) ==
    CASE version = Version(0, 0) -> Ok(size_of("V0_0"))
      [] version = Version(0, 1) -> Ok(size_of("V0_1"))
      [] version = Version(0, 2) -> Ok(size_of("V0_2"))
      [] version = Version(1, 0) -> Ok(size_of("V1_0"))
      [] OTHER -> Err("TriedToGetProbeMetadataForNonExistentVersion")

\* the same match written for the line being declared: one arm per evolution
line_probe_metadata(version) ==
    IF version.major = 0 /\ version.minor < Len(line)
    THEN Ok(size_of(LineEvolutions[version.minor + 1]))
    ELSE Err("TriedToGetProbeMetadataForNonExistentVersion")

probe_metadata(E, version) ==
    CASE E = "v1" -> v1_probe_metadata(version)
      [] E = "v2" -> v2_probe_metadata(version)
      [] E = "v3" -> v3_probe_metadata(version)
      [] E = "line" -> line_probe_metadata(version)

----------------------------------------------------------------------------
(* Probes: reinterpreting raw bytes *)

OutOfBounds == -2    \* a byte past the end of the object a pointer points into

MemAt(mem, i) == IF i <= Len(mem) THEN mem[i] ELSE OutOfBounds

\* a cast of a pointer one byte past the probe's data pointer
as_version_unchecked_Shifted(mem, V) == [i \in 1..size_of(V) |-> MemAt(mem, i + 1)]

\* ProbeOf::as_version_unchecked: &*self.data.as_ptr().cast::<V>(), a reference to
\* size_of::<V>() bytes at the probe's data pointer, whatever the probe's length
as_version_unchecked(mem, V) == [i \in 1..size_of(V) |-> MemAt(mem, i)]

\* the length test with < in place of <=
probe_as_Strict(mem, data_size, V) ==
    LET version_size == size_of(V)
    IN IF version_size < data_size
       THEN Some(as_version_unchecked(mem, V))
       ELSE None

\* ProbeOf::probe_as
probe_as(mem, data_size, V) ==
    LET version_size == size_of(V)
    IN IF version_size <= data_size
       THEN Some(as_version_unchecked(mem, V))
       ELSE None

\* what a read of field `name` through a &V may produce: the field's value, or,
\* when a byte read is padding, uninitialized or out of bounds, any value
UninitReads == {0, 85}    \* representatives of "any byte"

ReadFieldSet(ref, V, name) ==
    LET bs == SubSeq(ref, FieldOffset(V, name) + 1, FieldOffset(V, name) + FieldSize(V, name))
    IN IF \A i \in 1..Len(bs) : bs[i] >= 0
       THEN {FromBytes(bs)}
       ELSE {FromBytes(g) : g \in {h \in [1..Len(bs) -> UninitReads \cup {bs[i] : i \in 1..Len(bs)}] :
                                      \A i \in 1..Len(bs) :
                                          IF bs[i] >= 0 THEN h[i] = bs[i] ELSE h[i] \in UninitReads}}

\* the field accessors each probe type defines, and the version struct each reads
Accessors(E, probe) ==
    CASE probe = "TestProbeMajor1" -> {"a", "b"}
      [] E = "v1" -> {"a", "b", "c"}
      [] OTHER -> {"a", "b", "c", "d"}

AccessorVersion(probe, name) ==
    CASE probe = "TestProbeMajor1" -> "V1_0"
      [] name \in {"a", "b"} -> "V0_0"
      [] name = "c" -> "V0_1"
      [] name = "d" -> "V0_2"

\* every accessor casting without a length check
AccessorChecked_Never(probe, name) == FALSE

\* a()/b() cast without a length check, c()/d() go through probe_as
AccessorChecked(probe, name) == probe = "TestProbeMajor0" /\ name \in {"c", "d"}

\* the set of results an accessor call may return
accessor(probe, name, mem, data_size) ==
    LET V == AccessorVersion(probe, name)
        r == IF AccessorChecked(probe, name)
             THEN probe_as(mem, data_size, V)
             ELSE Some(as_version_unchecked(mem, V))
    IN IF r.some THEN {Some(x) : x \in ReadFieldSet(r.val, V, name)} ELSE {None}

\* Probe::version: the probe's length matched against the size of each version
\* registered for the base type, oldest version first
VersionBefore(v, w) == v.major < w.major \/ (v.major = w.major /\ v.minor <= w.minor)

probe_version(E, probe, data_size) ==
    LET known == {V \in Registered(E) : size_of(V) = data_size}
    IN IF known = {} THEN None
       ELSE Some(VERSION(CHOOSE V \in known :
                            \A W \in known : VersionBefore(VERSION(V), VERSION(W))))

\* the probe built with the size of the unpadded fields of V
archived_as_probe_Unpadded(V) ==
    [probe |-> ProbedBy(V), len |-> EndOf(StructOf(V), Len(StructOf(V)) - 1)]

\* VersionOf::archived_as_probe: the metadata of the probe built over a &V::Archived
archived_as_probe(V) == [probe |-> ProbedBy(V), len |-> size_of(V)]

----------------------------------------------------------------------------
(* The archive envelope *)

\* to_archived! / from_archived! on the u32 archived metadata (little-endian)
to_archived(n) == ToBytes(n, 4)
from_archived(bytes) == FromBytes(bytes)

\* the archived metadata read with the opposite byte order
pointer_metadata_BigEndian(archived) ==
    from_archived([i \in 1..Len(archived) |-> archived[Len(archived) + 1 - i]])

\* AnyProbe as ArchivePointee::pointer_metadata
pointer_metadata(archived) == from_archived(archived)

\* ArchivedEvolution::resolve_from_evolution::<EV>: the archived metadata stored in
\* the ArchivedBox beside the relative pointer to the payload
resolve_from_evolution(EV) == to_archived(size_of(EV))

\* ArchivedEvolution::as_specific_probe::<P>, through RawProbe::as_probe_unchecked:
\* same data pointer, same metadata, the probe type the caller names
as_specific_probe(archive, P) == [probe |-> P, len |-> pointer_metadata(archive.meta)]

\* ProbeOf::as_any_probe: the same data pointer and the same metadata as &AnyProbe<E>
as_any_probe(probe) == [probe |-> "AnyProbe", len |-> probe.len]

\* ArchivedEvolution::<E>::as_probe
as_probe(archive, E) == as_specific_probe(archive, LatestProbe(E))

\* ArchivedEvolution::<E>::probe_as_version::<V>
probe_as_version(archive, E, V) == probe_as(archive.bytes, as_probe(archive, E).len, V)

\* ArchivedEvolution::<E>::version
ArchivedEvolution_version(archive, E) ==
    probe_version(E, as_probe(archive, E).probe, as_probe(archive, E).len)

\* a destructor with an empty body
ArchivedEvolution_drop_Noop(archive) == "dropped"

\* Drop for ArchivedEvolution: the body is a single panic!
ArchivedEvolution_drop(archive) == "panic"

----------------------------------------------------------------------------
(* Pylon *)

\* the `.0` of a Version as Pylon::new compares it: the ordinal inside the line
VersionOrdinal(version) == version.minor

\* the comparison the wrong way round
Pylon_new_rejects_Reversed(StorageEV, EV) ==
    VersionOrdinal(VERSION(EV)) < VersionOrdinal(VERSION(StorageEV))

\* Pylon::new::<EV>: the check that guards the write into the storage
Pylon_new_rejects(StorageEV, EV) ==
    VersionOrdinal(VERSION(EV)) > VersionOrdinal(VERSION(StorageEV))

\* an archived field type with a destructor of its own: a #[repr(C)] struct over a u16
\* with an `impl Drop` (Evolution::Archived carries no bound that excludes one)
TyGuard == [size |-> 2, align |-> 2]

\* core::mem::needs_drop::<T>() of a field type
needs_drop(ty) == ty = TyGuard

\* the drop glue of EV::Archived: one destructor call per field that needs one
drop_glue(EV) ==
    Cardinality({i \in 1..Len(StructOf(EV)) : needs_drop(StructOf(EV)[i])})

\* `*place = value` on a place of type EV::Archived: the assignment first drops what the
\* place held, then moves the value in; the number of destructor calls it makes on the
\* place's prior contents
assign_drops(EV) == drop_glue(EV)

\* the storage after `*(&mut storage).cast::<EV::Archived>() = version_value`:
\* size_of::<EV::Archived>() bytes written at the start of the uninitialized storage
\* (a sequence longer than size_of(StorageEV) is a write past the storage)
Pylon_write(StorageEV, value) ==
    [i \in 1..Max(size_of(StorageEV), Len(value)) |->
        IF i <= Len(value) THEN value[i] ELSE Uninit]

\* Pylon::probe / Pylon::probe_mut: the metadata of the probe over the storage
Pylon_probe(pylon) == probe_metadata(pylon.E, pylon.contained_version)

\* "fits in the storage" taken for "fills the storage"
is_complete_Fits(pylon) ==
    VersionOrdinal(pylon.contained_version) <= VersionOrdinal(VERSION(pylon.StorageEV))

\* Pylon::is_complete
is_complete(pylon) == pylon.contained_version = VERSION(pylon.StorageEV)

\* Pylon::try_unwrap: mem::replace takes the storage out when the Pylon is complete,
\* and assume_init makes it the StorageEV::Archived returned; otherwise Err(self)
try_unwrap(pylon) ==
    IF is_complete(pylon)
    THEN Ok([kind |-> "value", bytes |-> pylon.bytes, ev |-> pylon.ev, vals |-> pylon.vals])
    ELSE Err(pylon)

\* Pylon::try_unwrap without its mem::forget(self)
Forgets_UnwrapDropsSelf ==
    {"Pylon::into_boxed_probe", "Proto::try_unwrap", "Proto::into_boxed_accessor"}

\* the consuming conversions that end with mem::forget(self)
Forgets ==
    {"Pylon::try_unwrap", "Pylon::into_boxed_probe",
     "Proto::try_unwrap", "Proto::into_boxed_accessor"}

\* how many times the destructor of `self` runs when a consuming conversion returns:
\* `self` is an owned argument, dropped at the end of the call unless it was forgotten
SourceDrops(conversion) == IF conversion \in Forgets THEN 0 ELSE 1

\* the heap block sized and tagged by the storage evolution
into_boxed_probe_StorageSized(pylon) ==
    LET size == size_of(pylon.StorageEV)
    IN [bytes |-> [i \in 1..size |-> MemAt(pylon.bytes, i)],
        meta |-> size,
        allocs |-> IF size = 0 THEN 0 ELSE 1]

\* Pylon::into_boxed_probe: the layout is size_of_val of the probe over the storage;
\* a layout of size 0 gets a dangling aligned pointer, any other one is allocated and
\* the probe's bytes copied into it; the box carries probe_metadata(contained_version)
into_boxed_probe(pylon) ==
    LET size == Pylon_probe(pylon).val
    IN [bytes |-> [i \in 1..size |-> MemAt(pylon.bytes, i)],
        meta |-> Pylon_probe(pylon).val,
        allocs |-> IF size = 0 THEN 0 ELSE 1]

----------------------------------------------------------------------------
(* Proto *)

\* Versioned::LATEST for the declared line
LATEST(T) == LatestVersion(T)

\* Versioned::accessor_metadata: the length of the accessor over a value of which the
\* fields of `version` are initialized
accessor_metadata(T, version) == size_of(version)

\* Proto::is_latest
is_latest(proto) == proto.version = LATEST(proto.E)

\* Proto::try_unwrap
try_unwrap_latest(proto) ==
    IF is_latest(proto)
    THEN Ok([kind |-> "value", bytes |-> proto.bytes, ev |-> proto.ev, vals |-> proto.vals])
    ELSE Err(proto)

\* Proto::into_boxed_accessor: as Pylon::into_boxed_probe, over the accessor
into_boxed_accessor(proto) ==
    LET size == accessor_metadata(proto.E, proto.version)
    IN [bytes |-> [i \in 1..size |-> MemAt(proto.bytes, i)],
        meta |-> accessor_metadata(proto.E, proto.version),
        allocs |-> IF size = 0 THEN 0 ELSE 1]

----------------------------------------------------------------------------
(* Partial and parts: what #[protoss] generates for a struct whose fields are grouped
   by #[version = n] (variable `line`: the groups, oldest first) *)

\* a reference-counted handle: a pointer to the shared count
TyRc == [size |-> 8, align |-> 8]

RcPointer == 4096    \* the address every clone of the handle holds

PhantomData == [size |-> 0, align |-> 1]

\* the #[repr(C)] struct of one version: its fields, then _phantom
VersionStruct(group) == group \o <<PhantomData>>

\* the composite #[repr(C)] struct: one field per version struct
Composite(groups) ==
    [k \in 1..Len(groups) |->
        [size |-> SizeOf(VersionStruct(groups[k])), align |-> AlignOf(VersionStruct(groups[k]))]]

\* addr_of!((*struct_ptr).version_k) - struct_ptr, and size_of::<VersionK>()
version_offset(groups, k) == OffsetOf(Composite(groups), k)

version_size(groups, k) == Composite(groups)[k].size

\* the memory of one version struct built by VersionK::new(fields..)
VersionBytes(group, gvals) ==
    LET st == VersionStruct(group)
    IN [i \in 1..SizeOf(st) |->
          IF \E j \in 1..Len(group) : OffsetOf(st, j) < i /\ i <= OffsetOf(st, j) + group[j].size
          THEN LET j == CHOOSE j \in 1..Len(group) :
                            OffsetOf(st, j) < i /\ i <= OffsetOf(st, j) + group[j].size
               IN ToBytes(gvals[j], group[j].size)[i - OffsetOf(st, j)]
          ELSE Uninit]

\* the length recorded as the size of the whole composite
partial_size_Full(groups, n) == SizeOf(Composite(groups))

\* partial_vN: the `size` handed to Partial::new_unchecked: the offset of the last
\* version written plus the size of its struct
partial_size(groups, n) == version_offset(groups, n) + version_size(groups, n)

\* partial_vN: the MaybeUninit<Self> after the first n version structs were written
partial_write(groups, n, vals) ==
    [i \in 1..SizeOf(Composite(groups)) |->
        IF \E k \in 1..n : /\ version_offset(groups, k) < i
                            /\ i <= version_offset(groups, k) + version_size(groups, k)
        THEN LET k == CHOOSE k \in 1..n :
                          /\ version_offset(groups, k) < i
                          /\ i <= version_offset(groups, k) + version_size(groups, k)
             IN VersionBytes(groups[k], vals[k])[i - version_offset(groups, k)]
        ELSE Uninit]

\* parts.__version_k(): None when the version struct ends past bytes.len(), otherwise
\* a reference to it (its offset in the bytes)
version_accessor(groups, len, k) ==
    IF version_offset(groups, k) + version_size(groups, k) > len
    THEN None
    ELSE Some(version_offset(groups, k))

\* a field accessor: self.__version_k().map(|version| &version.field): the memory of
\* field j of version k
field_accessor(groups, mem, len, k, j) ==
    LET v == version_accessor(groups, len, k)
        off == version_offset(groups, k) + OffsetOf(VersionStruct(groups[k]), j)
    IN IF v.some
       THEN Some([i \in 1..groups[k][j].size |-> MemAt(mem, off + i)])
       ELSE None

\* the handles a version struct owns
RcFields(group) == {j \in 1..Len(group) : group[j] = TyRc}

\* a destructor that stops after the first version
drop_versions_FirstOnly(groups, len, k) ==
    IF k = 1 /\ version_accessor(groups, len, k).some
    THEN Cardinality(RcFields(groups[k]))
    ELSE 0

\* Drop for parts, from version k on: drop_in_place each version struct the accessor
\* finds, return at the first one it does not; the result is the number of handles
\* released
RECURSIVE drop_versions(_, _, _)
drop_versions(groups, len, k) ==
    IF k > Len(groups) THEN 0
    ELSE IF version_accessor(groups, len, k).some
         THEN Cardinality(RcFields(groups[k])) + drop_versions(groups, len, k + 1)
         ELSE 0

\* Drop for parts, from version k on: the versions handed to drop_in_place, in the
\* order the generated statements run
RECURSIVE drop_order(_, _, _)
drop_order(groups, len, k) ==
    IF k > Len(groups) THEN << >>
    ELSE IF version_accessor(groups, len, k).some
         THEN <<k>> \o drop_order(groups, len, k + 1)
         ELSE << >>

\* const VERSION_k_SIZE: usize = size_of::<VersionK>()
VERSION_SIZE(groups, k) == SizeOf(VersionStruct(groups[k]))

\* `match self.bytes.len() { VERSION_0_SIZE => .., VERSION_1_SIZE => .., _ => .. }`:
\* the first arm whose constant equals the length, 0 for the fallback arm
match_arm(groups, len) ==
    IF \E k \in 1..Len(groups) : VERSION_SIZE(groups, k) = len
    THEN CHOOSE k \in 1..Len(groups) :
            /\ VERSION_SIZE(groups, k) = len
            /\ \A i \in 1..(k - 1) : VERSION_SIZE(groups, i) # len
    ELSE 0

\* where the match can continue: the arm it takes, or, from the fallback arm
\* (core::hint::unreachable_unchecked, undefined behaviour), any arm or a trap (0)
Dispatch(groups, len) ==
    IF match_arm(groups, len) # 0
    THEN {match_arm(groups, len)}
    ELSE 0..Len(groups)

\* resolve_metadata, in arm k: size_of::<Archived<VersionK>>() (the archived integers
\* and () have the size and alignment of their unarchived types)
resolve_metadata(groups, arm) == VERSION_SIZE(groups, arm)

\* serialize_unsized, in arm k: the version struct behind __version_k_unchecked(),
\* serialized alone
serialize_unsized(groups, mem, arm) ==
    [i \in 1..VERSION_SIZE(groups, arm) |-> MemAt(mem, version_offset(groups, arm) + i)]

\* a field accessor of the archived parts: the parts accessor over the archived bytes
\* and the archived length
archived_field_accessor(groups, archived, k, j) ==
    field_accessor(groups, archived.bytes, archived.len, k, j)

\* Partial::new_unchecked(value, size)
Partial_new_unchecked(groups, value, size) ==
    [kind |-> "partial", groups |-> groups, bytes |-> value, size |-> size]

\* Partial::into_boxed_parts: the initialized bytes in a heap block of exactly that
\* length, tagged with it
into_boxed_parts(partial) ==
    [kind |-> "parts", groups |-> partial.groups,
     bytes |-> [i \in 1..partial.size |-> MemAt(partial.bytes, i)],
     len |-> partial.size]

\* parts accepted whatever their length, copied into the target's storage
from_boxed_parts_Unchecked(parts, T) ==
    Ok(Partial_new_unchecked(T, [i \in 1..SizeOf(Composite(T)) |-> MemAt(parts.bytes, i)],
                             parts.len))

\* Partial::<T>::from_boxed_parts: parts longer than size_of::<T>() are handed back,
\* any other are moved into a MaybeUninit<T> with their length
from_boxed_parts(parts, T) ==
    IF parts.len > SizeOf(Composite(T))
    THEN Err(parts)
    ELSE Ok(Partial_new_unchecked(T,
                [i \in 1..SizeOf(Composite(T)) |->
                    IF i <= parts.len THEN parts.bytes[i] ELSE Uninit],
                parts.len))

----------------------------------------------------------------------------
(* State *)

NoObj == [kind |-> "none"]
NoView == [probe |-> "none"]
NoCall == [op |-> "none"]

\* the memory a probe view borrowed from the live object points at
Mem == IF obj.kind = "none" THEN << >> ELSE obj.bytes

Init ==
    /\ obj = NoObj
    /\ view = NoView
    /\ last = NoCall
    /\ line = << >>
    /\ heap = [strong |-> 1, drops |-> 0]

\* Pylon::new::<EV>(version_value) for a Pylon<E, StorageEV>
Pylon_new(E, StorageEV, EV, vals) ==
    /\ obj = NoObj
    /\ IF Pylon_new_rejects(StorageEV, EV)
       THEN /\ obj' = obj
            /\ last' = [op |-> "Pylon::new", E |-> E, StorageEV |-> StorageEV, EV |-> EV,
                        result |-> Err("CreatePylonWithNewerMinorVersionThanStorage"),
                        written |-> 0, prior_drops |-> 0]
            /\ heap' = [heap EXCEPT !.drops = 1]
       ELSE /\ obj' = [kind |-> "pylon", E |-> E, StorageEV |-> StorageEV,
                       bytes |-> Pylon_write(StorageEV, ArchivedValue(EV, vals)),
                       contained_version |-> VERSION(EV),
                       ev |-> EV, vals |-> vals]
            /\ last' = [op |-> "Pylon::new", E |-> E, StorageEV |-> StorageEV, EV |-> EV,
                        result |-> Ok("Pylon"),
                        written |-> size_of(EV), prior_drops |-> assign_drops(EV)]
            /\ heap' = [heap EXCEPT !.drops = 0]
    /\ UNCHANGED <<view, line>>

\* Pylon::into_boxed_probe: the live bytes move to an exactly sized heap block
Pylon_into_boxed_probe ==
    /\ obj.kind = "pylon"
    /\ view = NoView
    /\ IF Pylon_probe(obj).ok
       THEN LET box == into_boxed_probe(obj)
            IN /\ obj' = [kind |-> "box", E |-> obj.E, probe |-> LatestProbe(obj.E),
                          bytes |-> box.bytes, meta |-> box.meta,
                          ev |-> obj.ev, vals |-> obj.vals]
               /\ last' = [op |-> "into_boxed_probe", result |-> Ok("Box"),
                           pylon |-> obj, allocs |-> box.allocs]
               /\ heap' = [heap EXCEPT !.drops = @ + SourceDrops("Pylon::into_boxed_probe")]
       ELSE /\ obj' = NoObj
            /\ last' = [op |-> "into_boxed_probe", result |-> "panic"]
            /\ heap' = heap
    /\ UNCHANGED <<view, line>>

\* Drop for Pylon: drop_in_place of the probe over the storage (plain data)
Pylon_drop ==
    /\ obj.kind = "pylon"
    /\ view = NoView
    /\ obj' = NoObj
    /\ last' = [op |-> "drop", result |-> IF Pylon_probe(obj).ok THEN "dropped" ELSE "panic"]
    /\ heap' = [heap EXCEPT !.drops = @ + (IF Pylon_probe(obj).ok THEN 1 ELSE 0)]
    /\ UNCHANGED <<view, line>>

\* Pylon::is_complete
Pylon_is_complete ==
    /\ obj.kind = "pylon"
    /\ last' = [op |-> "is_complete", pylon |-> obj, result |-> is_complete(obj)]
    /\ UNCHANGED <<heap, obj, view, line>>

\* Pylon::try_unwrap
Pylon_try_unwrap ==
    /\ obj.kind = "pylon"
    /\ view = NoView
    /\ LET r == try_unwrap(obj)
       IN /\ last' = [op |-> "try_unwrap", pylon |-> obj, result |-> r]
          /\ IF r.ok
             THEN /\ obj' = r.val
                  /\ heap' = [heap EXCEPT !.drops = @ + SourceDrops("Pylon::try_unwrap")]
             ELSE /\ obj' = r.err
                  /\ heap' = heap
    /\ UNCHANGED <<view, line>>

\* Proto::latest(value)
Proto_latest(T, vals) ==
    /\ obj = NoObj
    /\ obj' = [kind |-> "proto", E |-> T,
               bytes |-> ArchivedValue(LATEST(T), vals),
               version |-> LATEST(T),
               ev |-> LATEST(T), vals |-> vals]
    /\ last' = [op |-> "Proto::latest", result |-> Ok("Proto")]
    /\ heap' = [heap EXCEPT !.drops = 0]
    /\ UNCHANGED <<view, line>>

\* Proto::new_unchecked(value, version), called as its safety section requires: the
\* fields `version` specifies are initialized, the rest of the MaybeUninit<T> is not
Proto_new_unchecked(T, V, vals) ==
    /\ obj = NoObj
    /\ obj' = [kind |-> "proto", E |-> T,
               bytes |-> Pylon_write(LATEST(T), ArchivedValue(V, vals)),
               version |-> V,
               ev |-> V, vals |-> vals]
    /\ last' = [op |-> "Proto::new_unchecked", result |-> Ok("Proto")]
    /\ heap' = [heap EXCEPT !.drops = 0]
    /\ UNCHANGED <<view, line>>

\* Proto::is_latest
Proto_is_latest ==
    /\ obj.kind = "proto"
    /\ last' = [op |-> "is_latest", proto |-> obj, result |-> is_latest(obj)]
    /\ UNCHANGED <<heap, obj, view, line>>

\* Proto::try_unwrap
Proto_try_unwrap ==
    /\ obj.kind = "proto"
    /\ view = NoView
    /\ LET r == try_unwrap_latest(obj)
       IN /\ last' = [op |-> "Proto::try_unwrap", proto |-> obj, result |-> r]
          /\ IF r.ok
             THEN /\ obj' = r.val
                  /\ heap' = [heap EXCEPT !.drops = @ + SourceDrops("Proto::try_unwrap")]
             ELSE /\ obj' = r.err
                  /\ heap' = heap
    /\ UNCHANGED <<view, line>>

\* Proto::into_boxed_accessor
Proto_into_boxed_accessor ==
    /\ obj.kind = "proto"
    /\ view = NoView
    /\ LET box == into_boxed_accessor(obj)
       IN /\ obj' = [kind |-> "box", E |-> obj.E, probe |-> "Accessor",
                     bytes |-> box.bytes, meta |-> box.meta,
                     ev |-> obj.ev, vals |-> obj.vals]
          /\ last' = [op |-> "into_boxed_accessor", result |-> Ok("Box"),
                      proto |-> obj, allocs |-> box.allocs]
    /\ heap' = [heap EXCEPT !.drops = @ + SourceDrops("Proto::into_boxed_accessor")]
    /\ UNCHANGED <<view, line>>

\* Drop for Proto: drop_in_place of the accessor over the value
Proto_drop ==
    /\ obj.kind = "proto"
    /\ view = NoView
    /\ obj' = NoObj
    /\ last' = [op |-> "drop", result |-> "dropped"]
    /\ heap' = [heap EXCEPT !.drops = @ + 1]
    /\ UNCHANGED <<view, line>>

\* &*boxed_probe: the probe a Box<E::Probe> dereferences to
Box_deref ==
    /\ obj.kind = "box"
    /\ view = NoView
    /\ view' = [probe |-> obj.probe, E |-> obj.E, len |-> obj.meta]
    /\ UNCHANGED <<heap, obj, last, line>>

\* core::mem::transmute::<&v2::TestProbeMajor0, &v1::TestProbeMajor0> and back, as the
\* tests do: the same fat pointer seen through another binding's probe type (mod v1,
\* mod v2 and mod v3 each declare a TestProbeMajor0 of the same layout)
Probe_transmute(E) ==
    /\ view # NoView
    /\ view.E \in Bindings /\ E \in Bindings /\ E # view.E
    /\ view.probe = "TestProbeMajor0"
    /\ view' = [view EXCEPT !.E = E]
    /\ UNCHANGED <<heap, obj, last, line>>

\* dropping a boxed probe, an archive buffer or a plain value
Drop_owner ==
    /\ obj.kind \in {"box", "archive", "value"}
    /\ view = NoView
    /\ obj' = NoObj
    /\ last' = [op |-> "drop", result |-> "dropped"]
    /\ heap' = [heap EXCEPT !.drops = @ + 1]
    /\ UNCHANGED <<view, line>>

\* the end of a borrow
Drop_view ==
    /\ view # NoView
    /\ view' = NoView
    /\ UNCHANGED <<heap, obj, last, line>>

\* Evolve::serialize_with then Evolve::resolve_with for a field of type E: the
\* archived E::LatestVersion at some position, and the ArchivedBox pointing at it
Evolve_serialize(E, vals) ==
    /\ obj = NoObj
    /\ LET EV == LatestVersion(E)
       IN obj' = [kind |-> "archive", E |-> E,
                  bytes |-> ArchivedValue(EV, vals),
                  meta |-> resolve_from_evolution(EV),
                  ev |-> EV, vals |-> vals]
    /\ last' = [op |-> "serialize", result |-> Ok("ArchivedEvolution")]
    /\ heap' = [heap EXCEPT !.drops = 0]
    /\ UNCHANGED <<view, line>>

\* a consumer compiled with binding E reads the archive as ArchivedEvolution<E>
ArchivedEvolution_as_probe(E) ==
    /\ obj.kind = "archive"
    /\ view = NoView
    /\ view' = [probe |-> as_probe(obj, E).probe, E |-> E, len |-> as_probe(obj, E).len]
    /\ UNCHANGED <<heap, obj, last, line>>

ArchivedEvolution_as_specific_probe(E, P) ==
    /\ obj.kind = "archive"
    /\ view = NoView
    /\ P \in ProbesOf(E)
    /\ view' = [probe |-> as_specific_probe(obj, P).probe, E |-> E,
                len |-> as_specific_probe(obj, P).len]
    /\ UNCHANGED <<heap, obj, last, line>>

ArchivedEvolution_probe_as_version(E, V) ==
    /\ obj.kind = "archive"
    /\ V \in Registered(E) /\ ProbedBy(V) = LatestProbe(E)
    /\ last' = [op |-> "probe_as_version", E |-> E, V |-> V,
                result |-> probe_as_version(obj, E, V)]
    /\ UNCHANGED <<heap, obj, view, line>>

ArchivedEvolution_call_version(E) ==
    /\ obj.kind = "archive"
    /\ last' = [op |-> "ArchivedEvolution::version", E |-> E, probe |-> LatestProbe(E),
                result |-> ArchivedEvolution_version(obj, E)]
    /\ UNCHANGED <<heap, obj, view, line>>

\* an ArchivedEvolution<E> held as an owned value (moved out of the archive it was
\* cast from) goes out of scope: its destructor runs, and the unwinding frees the buffer
ArchivedEvolution_dropped(E) ==
    /\ obj.kind = "archive"
    /\ view = NoView
    /\ obj' = NoObj
    /\ last' = [op |-> "ArchivedEvolution::drop", E |-> E, archive |-> obj,
                result |-> ArchivedEvolution_drop(obj)]
    /\ UNCHANGED <<heap, view, line>>

\* a caller holds a plain archived version value and views it as its probe
Archived_value(V, vals) ==
    /\ obj = NoObj
    /\ obj' = [kind |-> "value", bytes |-> ArchivedValue(V, vals), ev |-> V, vals |-> vals]
    /\ last' = [op |-> "value", result |-> Ok(V)]
    /\ heap' = [heap EXCEPT !.drops = 0]
    /\ UNCHANGED <<view, line>>

VersionOf_archived_as_probe(E) ==
    /\ obj.kind = "value"
    /\ view = NoView
    /\ obj.ev \in Registered(E)
    /\ view' = [probe |-> archived_as_probe(obj.ev).probe, E |-> E,
                len |-> archived_as_probe(obj.ev).len]
    /\ last' = [op |-> "archived_as_probe", E |-> E, V |-> obj.ev,
                len |-> archived_as_probe(obj.ev).len]
    /\ UNCHANGED <<heap, obj, line>>

\* a probe_as that narrows the borrowed probe to the version it returned
Probe_probe_as_Narrowing(V) ==
    /\ view # NoView
    /\ V \in Registered(view.E) /\ ProbedBy(V) = view.probe
    /\ last' = [op |-> "probe_as", E |-> view.E, probe |-> view.probe, len |-> view.len,
                V |-> V, result |-> probe_as(Mem, view.len, V)]
    /\ view' = [view EXCEPT !.len = IF size_of(V) <= @ THEN size_of(V) ELSE @]
    /\ UNCHANGED <<heap, obj, line>>

\* ProbeOf::probe_as::<V> on the borrowed probe
Probe_probe_as(V) ==
    /\ view # NoView
    /\ V \in Registered(view.E) /\ ProbedBy(V) = view.probe
    /\ last' = [op |-> "probe_as", E |-> view.E, probe |-> view.probe, len |-> view.len,
                V |-> V, result |-> probe_as(Mem, view.len, V)]
    /\ UNCHANGED <<heap, obj, view, line>>

\* a field accessor of the probe type
Probe_accessor(name) ==
    /\ view # NoView
    /\ name \in Accessors(view.E, view.probe)
    /\ \E r \in accessor(view.probe, name, Mem, view.len) :
          last' = [op |-> "accessor", E |-> view.E, probe |-> view.probe, len |-> view.len,
                   name |-> name, result |-> r]
    /\ UNCHANGED <<heap, obj, view, line>>

\* ProbeOf::as_any_probe on the borrowed probe
Probe_as_any_probe ==
    /\ view # NoView
    /\ last' = [op |-> "as_any_probe", E |-> view.E, probe |-> view.probe, len |-> view.len,
                result |-> as_any_probe(view)]
    /\ UNCHANGED <<heap, obj, view, line>>

Probe_version ==
    /\ view # NoView
    /\ last' = [op |-> "version", E |-> view.E, probe |-> view.probe, len |-> view.len,
                result |-> probe_version(view.E, view.probe, view.len)]
    /\ UNCHANGED <<heap, obj, view, line>>

\* E::probe_metadata(version) for any version token
Evolving_probe_metadata(E, version) ==
    /\ last' = [op |-> "probe_metadata", E |-> E, version |-> version,
                result |-> probe_metadata(E, version)]
    /\ UNCHANGED <<heap, obj, view, line>>

Next ==
    \/ \E E \in Bindings : \E StorageEV \in Registered(E) : \E EV \in Registered(E) :
          \E vals \in ValuesOf(EV) : Pylon_new(E, StorageEV, EV, vals)
    \/ Pylon_into_boxed_probe
    \/ Pylon_is_complete
    \/ Pylon_try_unwrap
    \/ Pylon_drop
    \/ Box_deref
    \/ \E E \in Bindings : Probe_transmute(E)
    \/ Drop_owner
    \/ Drop_view
    \/ \E E \in Bindings : \E vals \in ValuesOf(LatestVersion(E)) : Evolve_serialize(E, vals)
    \/ \E E \in Bindings : ArchivedEvolution_as_probe(E)
    \/ \E E \in Bindings : \E P \in ProbesOf(E) : ArchivedEvolution_as_specific_probe(E, P)
    \/ \E E \in Bindings : \E V \in Evolutions : ArchivedEvolution_probe_as_version(E, V)
    \/ \E E \in Bindings : ArchivedEvolution_call_version(E)
    \/ \E E \in Bindings : ArchivedEvolution_dropped(E)
    \/ \E V \in Evolutions : \E vals \in ValuesOf(V) : Archived_value(V, vals)
    \/ \E E \in Bindings : VersionOf_archived_as_probe(E)
    \/ \E V \in Evolutions : Probe_probe_as(V)
    \/ \E name \in {"a", "b", "c", "d"} : Probe_accessor(name)
    \/ Probe_version
    \/ Probe_as_any_probe
    \/ \E E \in Bindings : \E version \in VersionTokens : Evolving_probe_metadata(E, version)

Spec == Init /\ [][Next]_vars

----------------------------------------------------------------------------
(* Declaring a line of evolutions (layout part) *)

FieldTypes == {TyUnit, TyU8, TyU32}

\* the field groups one evolution may append: at least one field each
FieldGroups == UNION {[1..k -> FieldTypes] : k \in 1..MaxGroupFields}

\* the next evolution of the line is declared: `#[version = n]` and its fields
Declare_evolution(group) ==
    /\ Len(line) < MaxEvolutions
    /\ line' = Append(line, group)
    /\ UNCHANGED <<heap, obj, view, last>>

LayoutNext == \E group \in FieldGroups : Declare_evolution(group)

LayoutSpec == Init /\ [][LayoutNext]_vars

----------------------------------------------------------------------------
(* Owned containers over a declared line *)

\* a line whose evolutions append one field each
LineGroups == [1..1 -> FieldTypes \cup {TyGuard}]

\* the safety contract of `unsafe impl VersionOf`: within one major version every
\* evolution's archived type is strictly larger than the one before it
VersionOfContract ==
    \A n \in 1..(Len(line) - 1) :
        size_of(LineEvolutions[n + 1]) > size_of(LineEvolutions[n])

\* the types are declared before the program runs
Declare_line(group) ==
    /\ obj = NoObj /\ view = NoView /\ last = NoCall
    /\ Declare_evolution(group)

OwnedNext ==
    \/ \E group \in LineGroups : Declare_line(group)
    \/ \E StorageEV \in Registered("line") : \E EV \in Registered("line") :
          \E vals \in ValuesOf(EV) :
              VersionOfContract /\ Pylon_new("line", StorageEV, EV, vals)
    \/ Pylon_into_boxed_probe
    \/ Pylon_is_complete
    \/ Pylon_try_unwrap
    \/ Pylon_drop
    \/ /\ Len(line) > 0 /\ VersionOfContract
       /\ \E vals \in ValuesOf(LATEST("line")) : Proto_latest("line", vals)
    \/ \E V \in Registered("line") : \E vals \in ValuesOf(V) :
          VersionOfContract /\ Proto_new_unchecked("line", V, vals)
    \/ Proto_is_latest
    \/ Proto_try_unwrap
    \/ Proto_into_boxed_accessor
    \/ Proto_drop
    \/ Drop_owner
    \/ Box_deref
    \/ Drop_view
    \/ \E V \in Registered("line") : Probe_probe_as(V)

OwnedSpec == Init /\ [][OwnedNext]_vars

----------------------------------------------------------------------------
(* Partials and boxed parts of a #[protoss] struct *)

PartTypes == {TyUnit, TyU32, TyRc}

\* the field groups a #[version = n] may open: one field, or the (u32, u8) pair of the
\* derive test
PartGroups == [1..1 -> PartTypes] \cup {<<TyU32, TyU8>>}

\* the arguments a caller passes to partial_vN: a clone of the handle for every Rc
\* field, nothing for a unit field, and distinct integers for the others
PartialArgs(groups, n, v) ==
    [k \in 1..n |->
        [j \in 1..Len(groups[k]) |->
            IF groups[k][j] = TyRc THEN RcPointer
            ELSE IF groups[k][j] = TyUnit THEN 0
            ELSE 16 * k + 4 * j + v]]

RECURSIVE HandlesIn(_, _)
HandlesIn(groups, n) ==
    IF n = 0 THEN 0 ELSE HandlesIn(groups, n - 1) + Cardinality(RcFields(groups[n]))

\* the length of the bytes the live object exposes as parts
PartsLen == IF obj.kind = "partial" THEN obj.size ELSE obj.len

Declare_composite(group) ==
    /\ obj = NoObj /\ view = NoView /\ last = NoCall
    /\ Declare_evolution(group)

\* T::partial_vN(args..) with the clones of the handle made for the call
Partial_vN(n, v) ==
    /\ obj = NoObj
    /\ n \in 1..Len(line)
    /\ LET args == PartialArgs(line, n, v)
           size == partial_size(line, n)
           p == Partial_new_unchecked(line, partial_write(line, n, args), size)
       IN /\ obj' = [kind |-> p.kind, groups |-> p.groups, bytes |-> p.bytes,
                     size |-> p.size, n |-> n, vals |-> args]
          /\ last' = [op |-> "partial_vN", n |-> n, size |-> size, strong |-> heap.strong]
    /\ heap' = [strong |-> heap.strong + HandlesIn(line, n), drops |-> 0]
    /\ UNCHANGED <<view, line>>

Partial_into_boxed_parts ==
    /\ obj.kind = "partial"
    /\ LET b == into_boxed_parts(obj)
       IN obj' = [kind |-> b.kind, groups |-> b.groups, bytes |-> b.bytes,
                  len |-> b.len, n |-> obj.n, vals |-> obj.vals]
    /\ last' = [op |-> "into_boxed_parts", from |-> obj, strong |-> heap.strong]
    /\ UNCHANGED <<heap, view, line>>

\* boxed parts handed to code that knows the first m versions only
Partial_from_boxed_parts(m) ==
    /\ obj.kind = "parts"
    /\ m \in 1..Len(obj.groups)
    /\ LET r == from_boxed_parts(obj, SubSeq(obj.groups, 1, m))
       IN /\ last' = [op |-> "from_boxed_parts", m |-> m, from |-> obj, result |-> r,
                      strong |-> heap.strong]
          /\ obj' = IF r.ok
                    THEN [kind |-> r.val.kind, groups |-> r.val.groups, bytes |-> r.val.bytes,
                          size |-> r.val.size, n |-> obj.n, vals |-> obj.vals]
                    ELSE r.err
    /\ UNCHANGED <<heap, view, line>>

\* a field accessor called on the parts (of a Partial, or boxed)
Parts_field(k, j) ==
    /\ obj.kind \in {"partial", "parts"}
    /\ k \in 1..Len(obj.groups) /\ j \in 1..Len(obj.groups[k])
    /\ last' = [op |-> "field", k |-> k, j |-> j,
                result |-> field_accessor(obj.groups, obj.bytes, PartsLen, k, j)]
    /\ UNCHANGED <<heap, obj, view, line>>

\* the structs the archive operations are modelled for: integer and () fields
Archivable(groups) ==
    \A k \in 1..Len(groups) : \A j \in 1..Len(groups[k]) : groups[k][j] # TyRc

\* serializer.serialize_value(&partial): SerializeUnsized and ArchiveUnsized of the
\* parts; the source is borrowed and stays as it was
Parts_archive ==
    /\ obj.kind \in {"partial", "parts"}
    /\ Archivable(obj.groups)
    /\ \E arm \in Dispatch(obj.groups, PartsLen) :
          last' = [op |-> "archive", from |-> obj, arm |-> arm,
                   fallback |-> match_arm(obj.groups, PartsLen) = 0,
                   archived |-> IF arm = 0
                                THEN [bytes |-> << >>, len |-> 0]
                                ELSE [bytes |-> serialize_unsized(obj.groups, obj.bytes, arm),
                                      len |-> resolve_metadata(obj.groups, arm)]]
    /\ UNCHANGED <<heap, obj, view, line>>

\* a field accessor called on the archived parts read back from the buffer
Archived_parts_field(k, j) ==
    /\ last.op = "archive" /\ last.arm # 0
    /\ obj = last.from
    /\ k \in 1..Len(obj.groups) /\ j \in 1..Len(obj.groups[k])
    /\ last' = [op |-> "archived field", k |-> k, j |-> j, arm |-> last.arm,
                result |-> archived_field_accessor(obj.groups, last.archived, k, j)]
    /\ UNCHANGED <<heap, obj, view, line>>

\* Drop for the parts, run when the boxed parts or the Partial over them is dropped
Parts_drop ==
    /\ obj.kind \in {"partial", "parts"}
    /\ obj' = NoObj
    /\ last' = [op |-> "parts drop", from |-> obj, strong |-> heap.strong,
                dropped |-> drop_order(obj.groups, PartsLen, 1)]
    /\ heap' = [strong |-> heap.strong - drop_versions(obj.groups, PartsLen, 1),
                drops |-> heap.drops + 1]
    /\ UNCHANGED <<view, line>>

PartialNext ==
    \/ \E group \in PartGroups : Declare_composite(group)
    \/ \E n \in 1..MaxEvolutions : \E v \in 0..(MaxFieldValues - 1) : Partial_vN(n, v)
    \/ Partial_into_boxed_parts
    \/ \E m \in 1..MaxEvolutions : Partial_from_boxed_parts(m)
    \/ \E k \in 1..MaxEvolutions : \E j \in 1..2 : Parts_field(k, j)
    \/ Parts_archive
    \/ \E k \in 1..MaxEvolutions : \E j \in 1..2 : Archived_parts_field(k, j)
    \/ Parts_drop

PartialSpec == Init /\ [][PartialNext]_vars

\* consecutive evolutions n, n+1 of the declared line
Pairs == 1..(Len(line) - 1)

GroupIsZeroSized(g) == \A j \in 1..Len(line[g]) : line[g][j].size = 0

\* the line of protoss_test's major version 0
TestLine == <<<<TyU32, TyU8>>, <<TyU32>>, <<TyU8>>>>

----------------------------------------------------------------------------
(* The derive macro: grouping the fields of a #[protoss] struct by version *)

\* the literal of a `#[version = ...]` attribute that is not an integer
NotAnInteger == -1

\* the literals a `#[version = ...]` attribute may carry
VersionLits == (0..MaxVersionAttr) \cup {NotAnInteger}

\* the version attributes one field may carry: none, one, or two
AttrLists == {<< >>} \cup {<<v>> : v \in VersionLits}
                 \cup {<<v, w>> : v \in VersionLits, w \in VersionLits}

\* util::parse_version
parse_version(attr) ==
    IF attr = NotAnInteger THEN Err("version attribute must be an integer") ELSE Ok(attr)

\* `.map(parse_version).collect::<Result<Vec<_>, _>>()`: the parsed literals, or the
\* first error
RECURSIVE collect_parsed(_)
collect_parsed(attrs) ==
    IF attrs = << >> THEN Ok(<< >>)
    ELSE IF ~parse_version(Head(attrs)).ok THEN parse_version(Head(attrs))
    ELSE LET rest == collect_parsed(Tail(attrs))
         IN IF rest.ok THEN Ok(<<parse_version(Head(attrs)).val>> \o rest.val) ELSE rest

\* the `_` arm taking the first attribute instead of failing
field_version_FirstWins(version_attrs, last_version) ==
    IF Len(version_attrs) = 0
    THEN IF last_version.some THEN Ok(last_version.val)
         ELSE Err("field is not associated with a version")
    ELSE Ok(version_attrs[1])

\* `match version_attrs.len()`: the version one field belongs to
field_version(version_attrs, last_version) ==
    IF Len(version_attrs) = 0
    THEN IF last_version.some THEN Ok(last_version.val)
         ELSE Err("field is not associated with a version")
    ELSE IF Len(version_attrs) = 1 THEN Ok(version_attrs[1])
    ELSE Err("field is associated with multiple versions")

\* `version_to_fields.entry(version).or_insert(Vec::new()).push(field)`
entry_push(version_to_fields, version, field) ==
    [v \in DOMAIN version_to_fields \cup {version} |->
        IF v = version
        THEN IF v \in DOMAIN version_to_fields
             THEN Append(version_to_fields[v], field) ELSE <<field>>
        ELSE version_to_fields[v]]

\* the loop over fields.named: field i onwards, with the map and last_version so far;
\* a field is kept as its index in the declaration
RECURSIVE for_named(_, _, _, _)
for_named(named, i, last_version, version_to_fields) ==
    IF i > Len(named) THEN Ok(version_to_fields)
    ELSE LET version_attrs == collect_parsed(named[i])
         IN IF ~version_attrs.ok THEN version_attrs
            ELSE LET version == field_version(version_attrs.val, last_version)
                 IN IF ~version.ok THEN version
                    ELSE for_named(named, i + 1, Some(version.val),
                                   entry_push(version_to_fields, version.val, i))

\* `drain().collect()` then `sort_by_key(|(v, _)| *v)`: the (version, fields) pairs by
\* ascending key, whatever order the map drained in
RECURSIVE sort_by_key(_)
sort_by_key(version_to_fields) ==
    IF DOMAIN version_to_fields = {} THEN << >>
    ELSE LET v == CHOOSE v \in DOMAIN version_to_fields :
                      \A w \in DOMAIN version_to_fields : v <= w
         IN <<(<<v, version_to_fields[v]>>)>>
                \o sort_by_key([w \in DOMAIN version_to_fields \ {v} |-> version_to_fields[w]])

\* util::collect_versions
collect_versions(fields) ==
    IF fields.shape # "Named"
    THEN Err("protoss may only be used on structs with named fields")
    ELSE LET version_to_fields == for_named(fields.named, 1, None, << >>)
         IN IF version_to_fields.ok THEN Ok(sort_by_key(version_to_fields.val))
            ELSE version_to_fields

FieldsShapes == {"Named", "Unnamed", "Unit"}

\* a struct is declared: `struct T { ... }`, `struct T(...)` or `struct T;`
Declare_struct(shape) ==
    /\ obj = NoObj /\ last = NoCall
    /\ obj' = [kind |-> "Fields", shape |-> shape, named |-> << >>]
    /\ UNCHANGED <<view, last, line, heap>>

\* the next named field of the struct is declared with its attributes
Declare_field(attrs) ==
    /\ obj.kind = "Fields" /\ obj.shape = "Named" /\ last = NoCall
    /\ Len(obj.named) < MaxDeclFields
    /\ obj' = [obj EXCEPT !.named = Append(@, attrs)]
    /\ UNCHANGED <<view, last, line, heap>>

\* #[protoss] expands: composite::generate calls collect_versions(&input.fields)
Derive_collect_versions ==
    /\ obj.kind = "Fields"
    /\ last' = [op |-> "collect_versions", fields |-> obj, result |-> collect_versions(obj)]
    /\ UNCHANGED <<obj, view, line, heap>>

DeriveNext ==
    \/ \E shape \in FieldsShapes : Declare_struct(shape)
    \/ \E attrs \in AttrLists : Declare_field(attrs)
    \/ Derive_collect_versions

DeriveSpec == Init /\ [][DeriveNext]_vars

----------------------------------------------------------------------------
(* C5, C6: the layout policy *)

Decl(n) == EvolutionDecl(line, n)

\* every field of the earlier struct d0 keeps its type and offset in the later struct
\* d1, and every field d1 appends lies at or past the end of d0
PrefixPreserved(d0, d1) ==
    /\ \A k \in 1..Len(d0) :
          /\ d1[k] = d0[k]
          /\ OffsetOf(d1, k) = OffsetOf(d0, k)
    /\ \A k \in (Len(d0) + 1)..Len(d1) : OffsetOf(d1, k) >= SizeOf(d0)

\* the hand-written structs of protoss_test are the policy applied to TestLine
TestStructsFollowPolicy ==
    /\ ArchivedTestV0_0 = EvolutionDecl(TestLine, 1)
    /\ ArchivedTestV0_1 = EvolutionDecl(TestLine, 2)
    /\ ArchivedTestV0_2 = EvolutionDecl(TestLine, 3)
    /\ size_of("V0_0") < size_of("V0_1")
    /\ size_of("V0_1") < size_of("V0_2")

----------------------------------------------------------------------------
(* C1..C4, C7..C10: probing *)

\* the last call went through a probe of the line the live object's data belongs to
SameLine == PROBES_MAJOR_VERSION(last.probe) = VERSION(obj.ev).major

\* the version a field accessor's field was introduced in
Introduced(probe, name) == VERSION(AccessorVersion(probe, name)).minor

\* the fields of struct V read out of a reference are the values written
FieldsAsWritten(ref, V) ==
    \A n \in DOMAIN NamedFields(V) : ReadFieldSet(ref, V, n) = {obj.vals[n]}

\* C1: probe_as::<V>(p) is Some exactly when p's length is >= size_of(V) and None
\* otherwise; when Some, the view returned is the first size_of(V) bytes of p.
C1_ProbeAsIffLongEnough ==
    last.op = "probe_as" =>
        /\ last.result.some <=> (last.len >= SizeOf(StructOf(last.V)))
        /\ last.result.some =>
              last.result.val = SubSeq(SubSeq(Mem, 1, last.len), 1, SizeOf(StructOf(last.V)))

\* probe_as returned Some on a probe strictly longer than the version asked for
C1_Witness ==
    /\ last.op = "probe_as"
    /\ last.result.some
    /\ last.len > size_of(last.V)

\* C2: data written as evolution Vn (Pylon::new + into_boxed_probe, or the Evolve
\* envelope) and probed as any Vm of the same line with m <= n gives Some, and every
\* field visible in Vm equals the value written.
C2_BackwardRead ==
    /\ (/\ last.op = "probe_as"
        /\ obj.kind \in {"box", "archive"}
        /\ SameLine
        /\ VERSION(last.V).minor <= VERSION(obj.ev).minor)
       => (last.result.some /\ FieldsAsWritten(last.result.val, last.V))
    /\ (/\ last.op = "probe_as_version"
        /\ VERSION(last.V).major = VERSION(obj.ev).major
        /\ VERSION(last.V).minor <= VERSION(obj.ev).minor)
       => (last.result.some /\ FieldsAsWritten(last.result.val, last.V))

\* a consumer on v1 probes an archive written by a v2 producer as the oldest version
C2_Witness ==
    /\ obj.kind = "archive" /\ obj.ev = "V0_2"
    /\ last.op = "probe_as" /\ last.E = "v1" /\ last.V = "V0_0"
    /\ last.result.some

\* C3 as stated: data written as Vn and read as any later Vm (m > n) of the same line:
\* probe_as::<Vm> is None, the accessors return None only for fields introduced at or
\* after Vm, and Some(original value) for every field introduced at or before Vn.
C3_Original ==
    /\ (/\ last.op = "probe_as" /\ SameLine
        /\ VERSION(last.V).minor > VERSION(obj.ev).minor)
       => ~last.result.some
    /\ (last.op = "accessor" /\ SameLine) =>
          \A Vm \in Registered(last.E) :
              (ProbedBy(Vm) = last.probe /\ VERSION(Vm).minor > VERSION(obj.ev).minor) =>
                  /\ ~last.result.some =>
                        Introduced(last.probe, last.name) >= VERSION(Vm).minor
                  /\ Introduced(last.probe, last.name) <= VERSION(obj.ev).minor =>
                        last.result = Some(obj.vals[last.name])

\* C3 (amended): data written as Vn and read as any later Vm (m > n) of the same line:
\* probe_as::<Vm> is None, the accessors return None exactly for the fields introduced
\* after Vn, and Some(original value) for every field introduced at or before Vn.
C3_ForwardRead ==
    /\ (/\ last.op = "probe_as" /\ SameLine
        /\ VERSION(last.V).minor > VERSION(obj.ev).minor)
       => ~last.result.some
    /\ (last.op = "accessor" /\ SameLine) =>
          /\ ~last.result.some <=>
                Introduced(last.probe, last.name) > VERSION(obj.ev).minor
          /\ Introduced(last.probe, last.name) <= VERSION(obj.ev).minor =>
                last.result = Some(obj.vals[last.name])

\* a consumer on v2 asks an archive written by a v1 producer for the field v2 added
C3_Witness ==
    /\ obj.kind = "archive" /\ obj.ev = "V0_1"
    /\ last.op = "accessor" /\ last.E = "v2" /\ last.name = "d"
    /\ ~last.result.some

\* C4: the probe a consumer gets from ArchivedEvolution::as_probe over an archive
\* serialized through Evolve with evolution EV has length exactly size_of(EV), whatever
\* the consumer's binding; probe_as_version::<V> is Some exactly when
\* size_of(V) <= size_of(EV).
C4_EnvelopeLength ==
    /\ (obj.kind = "archive" /\ view # NoView) =>
          /\ view.len = SizeOf(StructOf(obj.ev))
          /\ view.len = Len(obj.bytes)
    /\ last.op = "probe_as_version" =>
          (last.result.some <=> SizeOf(StructOf(last.V)) <= SizeOf(StructOf(obj.ev)))

\* a consumer whose latest evolution is newer than the one written holds the probe
\* and has been refused its own latest evolution
C4_Witness ==
    /\ obj.kind = "archive" /\ obj.ev = "V0_1"
    /\ view # NoView /\ view.E = "v2"
    /\ last.op = "probe_as_version" /\ last.E = "v2" /\ last.V = "V0_2"
    /\ ~last.result.some

\* C7: probe_metadata returns Ok(size of the version's archived layout) for every
\* version registered for the base type and
\* Err(TriedToGetProbeMetadataForNonExistentVersion) for every other version token.
C7_ProbeMetadataTotal ==
    last.op = "probe_metadata" =>
        LET reg == {V \in Registered(last.E) : VERSION(V) = last.version}
        IN IF reg = {}
           THEN last.result = Err("TriedToGetProbeMetadataForNonExistentVersion")
           ELSE \A V \in reg : last.result = Ok(SizeOf(StructOf(V)))

\* binding v1 was asked for a version only v2 registers
C7_Witness ==
    /\ last.op = "probe_metadata"
    /\ last.E = "v1" /\ last.version = Version(0, 2)
    /\ ~last.result.ok

\* C8: for every registered evolution V of E, E::probe_metadata(V::VERSION) is
\* Ok(size_of(V)), which is the length of the probe archived_as_probe builds from a V.
C8_MetadataAgrees ==
    last.op = "archived_as_probe" =>
        /\ probe_metadata(last.E, VERSION(last.V)) = Ok(last.len)
        /\ last.len = Len(obj.bytes)
        /\ view # NoView => view.len = last.len

\* archived_as_probe has built a probe over a value of the second line's evolution
C8_Witness ==
    /\ last.op = "archived_as_probe"
    /\ last.E = "v3" /\ last.V = "V1_0"
    /\ view # NoView

\* the length of the data the last version() call looked at
VersionCallLength == IF last.op = "version" THEN last.len ELSE Len(obj.bytes)

\* C9: Probe::version and ArchivedEvolution::version return Some(v) exactly when the
\* probe's length is the size of a version v known to the reader's binding, and None
\* when the length matches no known evolution.
C9_VersionFromLength ==
    last.op \in {"version", "ArchivedEvolution::version"} =>
        LET known == {V \in Registered(last.E) : SizeOf(StructOf(V)) = VersionCallLength}
        IN IF known = {}
           THEN last.result = None
           ELSE last.result.some /\ \E V \in known : last.result.val = VERSION(V)

\* a consumer on v1 asked the version of an archive written by a v2 producer
C9_Witness ==
    /\ obj.kind = "archive" /\ obj.ev = "V0_2"
    /\ last.op = "ArchivedEvolution::version" /\ last.E = "v1"
    /\ last.result = None

\* EV and StorageEV of the last Pylon::new belong to one line
OneLine == VERSION(last.EV).major = VERSION(last.StorageEV).major

----------------------------------------------------------------------------
(* C11..C14: Pylon across lines, conversions, the envelope's destructor *)

\* C11: Pylon::<E, StorageEV>::new::<EV> with EV of another major version than
\* StorageEV fails with Error::CreatePylonWithUnmatchedMajorVersions.
C11_UnmatchedMajor ==
    (last.op = "Pylon::new" /\ ~OneLine) =>
        last.result = Err("CreatePylonWithUnmatchedMajorVersions")

\* C12: Pylon::into_boxed_probe returns a boxed probe whose length is exactly
\* probe_metadata(contained_version), the size of the contained evolution and not of
\* the storage evolution, and whose bytes are the Pylon's live bytes; when that size is
\* 0 the allocator is not called.
C12_IntoBoxedProbe ==
    (last.op = "into_boxed_probe" /\ last.result = Ok("Box")) =>
        /\ obj.kind = "box"
        /\ probe_metadata(last.pylon.E, last.pylon.contained_version) = Ok(obj.meta)
        /\ obj.meta = SizeOf(StructOf(last.pylon.ev))
        /\ Len(obj.bytes) = obj.meta
        /\ obj.bytes = SubSeq(last.pylon.bytes, 1, obj.meta)
        /\ obj.bytes = ArchivedValue(last.pylon.ev, last.pylon.vals)
        /\ obj.meta = 0 => last.allocs = 0
        /\ obj.meta > 0 => last.allocs = 1

\* a Pylon holding a zero-sized first evolution in a larger storage was boxed
C12_Witness ==
    /\ last.op = "into_boxed_probe"
    /\ obj.kind = "box" /\ obj.meta = 0
    /\ Len(last.pylon.bytes) > 0
    /\ last.allocs = 0

\* the container of the last is_complete / is_latest / try_unwrap call, and whether it
\* held the full evolution of its storage
Container == IF last.op \in {"is_complete", "try_unwrap"} THEN last.pylon ELSE last.proto

FullEvolution ==
    IF last.op \in {"is_complete", "try_unwrap"}
    THEN last.pylon.StorageEV
    ELSE LatestVersion(last.proto.E)

\* C13: is_complete (Pylon::is_complete, Proto::is_latest) is true exactly when the
\* container holds the full storage/latest evolution; try_unwrap returns Ok(the value
\* originally stored) exactly when is_complete is true, and otherwise returns Err
\* carrying the original container with its contained version and bytes unchanged.
C13_CompleteAndUnwrap ==
    /\ last.op \in {"is_complete", "is_latest"} =>
          (last.result <=> Container.ev = FullEvolution)
    /\ last.op \in {"try_unwrap", "Proto::try_unwrap"} =>
          IF Container.ev = FullEvolution
          THEN /\ last.result.ok
               /\ last.result.val.bytes = ArchivedValue(FullEvolution, Container.vals)
               /\ obj = last.result.val
          ELSE /\ ~last.result.ok
               /\ last.result.err = Container
               /\ obj = Container

\* try_unwrap handed back a Pylon that holds an older evolution than its storage
C13_Witness ==
    /\ last.op = "try_unwrap"
    /\ ~last.result.ok
    /\ obj.kind = "pylon"
    /\ obj.contained_version # VERSION(obj.StorageEV)

\* C14: dropping an ArchivedEvolution as an owned value always panics; no path through
\* its Drop returns normally.
C14_DropPanics ==
    last.op = "ArchivedEvolution::drop" => last.result = "panic"

\* an owned ArchivedEvolution over a well-formed archive of the latest evolution was dropped
C14_Witness ==
    /\ last.op = "ArchivedEvolution::drop"
    /\ last.E = "v2" /\ last.archive.ev = "V0_2"
    /\ pointer_metadata(last.archive.meta) = Len(last.archive.bytes)
    /\ obj = NoObj

----------------------------------------------------------------------------
(* C15..C19: Partials and parts *)

\* the boxed parts are of the struct as declared and come from one of its constructors
OwnParts == obj.kind = "parts" /\ obj.groups = line

\* the memory of field j of version k as the constructor was given it
Constructed(k, j) == ToBytes(obj.vals[k][j], obj.groups[k][j].size)

\* C15: round trip: for every evolution Vn, building a Partial with the partial_vN
\* constructor, converting it to boxed parts and reading the field accessors returns
\* Some(constructed value) for every field of evolutions 0..n and None for every field
\* of a later evolution.
C15_RoundTrip ==
    (last.op = "field" /\ OwnParts) =>
        IF last.k <= obj.n
        THEN last.result = Some(Constructed(last.k, last.j))
        ELSE last.result = None

\* the same round trip, with None for the fields of a later evolution whose version
\* struct, or one between Vn and it, has a nonzero size
C15_RoundTripSized ==
    (last.op = "field" /\ OwnParts) =>
        IF last.k <= obj.n
        THEN last.result = Some(Constructed(last.k, last.j))
        ELSE (\E i \in (obj.n + 1)..last.k : version_size(obj.groups, i) > 0)
                 => last.result = None

\* the fields of the handle's type initialized in a Partial built by partial_vN
InitializedHandles(n) ==
    Cardinality({kj \in UNION {{<<k, j>> : j \in 1..Len(line[k])} : k \in 1..n} :
                    line[kj[1]][kj[2]] = TyRc})

\* C16: drop correctness: over any sequence of constructing Partials at any evolution
\* boundary, converting them to boxed parts and dropping them, the reference count
\* rises by exactly the number of initialized fields of the handle's type at
\* construction, is unchanged by into_boxed_parts, and falls by exactly that number at
\* drop, never more and never less.
C16_DropCorrectness ==
    /\ last.op = "partial_vN" => heap.strong = last.strong + InitializedHandles(last.n)
    /\ last.op = "into_boxed_parts" => heap.strong = last.strong
    /\ last.op = "parts drop" => heap.strong = last.strong - InitializedHandles(last.from.n)
    /\ heap.strong = 1 + (IF obj.kind \in {"partial", "parts"}
                          THEN InitializedHandles(obj.n) ELSE 0)

\* boxed parts built at the first boundary of a struct with a handle in each of its two
\* versions were dropped: one handle released, the count back to the caller's own
C16_Witness ==
    /\ last.op = "parts drop"
    /\ last.from.kind = "parts" /\ last.from.n = 1
    /\ line = <<(<<TyRc>>), (<<TyRc>>)>>
    /\ last.strong = 2 /\ heap.strong = 1

\* the type from_boxed_parts was asked to rebuild: the first m version groups
TargetOf(call) == SubSeq(call.from.groups, 1, call.m)

\* C17: from_boxed_parts applied to boxed parts whose length is greater than the static
\* full size of the target type returns the original box unharmed (same bytes, same
\* length) as the error value, and never truncates it or writes past the target's
\* storage.
C17_RejectsOverlong ==
    last.op = "from_boxed_parts" =>
        IF last.from.len > SizeOf(Composite(TargetOf(last)))
        THEN /\ ~last.result.ok
             /\ last.result.err = last.from
             /\ obj = last.from
        ELSE /\ last.result.ok
             /\ Len(last.result.val.bytes) = SizeOf(Composite(TargetOf(last)))
             /\ last.result.val.size = last.from.len
             /\ last.result.val.size <= Len(last.result.val.bytes)

\* parts of two version groups, 12 bytes long, were handed to the type that only knows
\* the first group (4 bytes) and came back as the error
C17_Witness ==
    /\ last.op = "from_boxed_parts"
    /\ last.m = 1 /\ last.from.n = 2
    /\ last.from.len = 12
    /\ SizeOf(Composite(TargetOf(last))) = 4
    /\ ~last.result.ok
    /\ obj.kind = "parts" /\ obj.len = 12

----------------------------------------------------------------------------
(* C18: ownership through the consuming conversions *)

\* the holders that own an initialized value
Holders == {"pylon", "proto", "box", "value"}

\* C18: every conversion that consumes a container (Pylon::try_unwrap on success,
\* Pylon::into_boxed_probe, Proto::try_unwrap on success, Proto::into_boxed_accessor)
\* suppresses the source's destructor, so over any sequence of construct, convert and
\* drop operations each initialized value is owned by exactly one holder and destroyed
\* exactly once, never twice and never leaked.
C18_DestroyedOnce ==
    /\ heap.drops <= 1
    /\ obj.kind \in Holders => heap.drops = 0
    /\ (obj = NoObj /\ last # NoCall) => heap.drops = 1
    /\ last.op \in {"try_unwrap", "Proto::try_unwrap"} =>
          /\ last.result.ok => obj.kind = "value" /\ obj.bytes = Container.bytes
          /\ ~last.result.ok => obj = Container
    /\ last.op \in {"into_boxed_probe", "into_boxed_accessor"} => obj.kind = "box"

\* a complete Pylon was unwrapped: the value now belongs to the caller and the forgotten
\* Pylon destroyed nothing
C18_Witness ==
    /\ last.op = "try_unwrap"
    /\ last.result.ok
    /\ last.pylon.kind = "pylon"
    /\ obj.kind = "value"
    /\ heap.drops = 0

----------------------------------------------------------------------------
(* C19: the initialized length *)

\* the end of evolution n's field group in the composite of the declared line
Boundary(n) == OffsetOf(Composite(line), n) + SizeOf(VersionStruct(line[n]))

\* where field j of version k starts and ends in the composite
FieldStart(k, j) == OffsetOf(Composite(line), k) + OffsetOf(VersionStruct(line[k]), j)

FieldEnd(k, j) == FieldStart(k, j) + line[k][j].size

\* the length of the parts an operation consumed
LengthOf(o) == IF o.kind = "partial" THEN o.size ELSE o.len

\* C19: the initialized length recorded by every generated partial_vN constructor is
\* exactly the end of evolution N's field group (offset of group N plus its size), so it
\* is always an evolution boundary and never stops mid-field, and no later operation on
\* the Partial or its parts changes that length.
C19_LengthIsBoundary ==
    /\ last.op = "partial_vN" => last.size = Boundary(last.n) /\ obj.size = last.size
    /\ obj.kind \in {"partial", "parts"} =>
          /\ PartsLen = Boundary(obj.n)
          /\ \A k \in 1..Len(line) : \A j \in 1..Len(line[k]) :
                FieldEnd(k, j) <= PartsLen \/ FieldStart(k, j) >= PartsLen
    /\ last.op \in {"into_boxed_parts", "from_boxed_parts"} => PartsLen = LengthOf(last.from)

\* a Partial built at the first boundary (8 bytes: a u32, a u8 and tail padding) of a
\* two-version struct went to boxed parts and back and still records 8 bytes
C19_Witness ==
    /\ last.op = "from_boxed_parts" /\ last.result.ok
    /\ obj.kind = "partial" /\ obj.n = 1 /\ Len(line) = 2
    /\ line[1] = <<TyU32, TyU8>>
    /\ obj.size = 8
    /\ obj.size < SizeOf(Composite(line))

----------------------------------------------------------------------------
(* C20: a boxed probe of one binding read through another binding's probe type *)

\* the last call was probe_as on the boxed probe, reinterpreted as the probe type of a
\* binding other than the one that built it
CrossLine == last.op = "probe_as" /\ obj.kind = "box" /\ last.E # obj.E

\* the archived V0_1 made of the values the producer wrote
WrittenV1 == ArchivedValue("V0_1", [n \in DOMAIN NamedFields("V0_1") |-> obj.vals[n]])

\* the statement for a V2-sized probe read through a line that has a V2 of its own:
\* probe_as::<V2>() is None and probe_as::<V1>() is Some with the written values
C20_V2SizedIsNone ==
    (/\ CrossLine
     /\ last.len = size_of("V0_2")
     /\ "V0_2" \in Registered(obj.E) \cap Registered(last.E)) =>
        /\ last.V = "V0_2" => last.result = None
        /\ last.V = "V0_1" => last.result = Some(WrittenV1)

\* C20: cross-line reinterpretation (scenario B): a probe of line A reinterpreted as
\* line B's probe type answers probe_as::<V2_of_B>() with None exactly when the probe is
\* shorter than V2_of_B (the V1-sized probe of a line that stops at V1), and answers
\* probe_as::<V1_of_B>() with Some and the written values whenever it holds a V1.
C20_CrossLine ==
    CrossLine =>
        /\ last.V = "V0_2" => (last.result = None <=> last.len < size_of("V0_2"))
        /\ (last.V = "V0_2" /\ last.len = size_of("V0_1")) => last.result = None
        /\ (last.V = "V0_1" /\ last.len >= size_of("V0_1")) => last.result = Some(WrittenV1)

\* v2_from_v1: the V1-sized boxed probe of mod v1 read as v2::TestProbeMajor0 and asked
\* for V0_2
C20_Witness ==
    /\ CrossLine
    /\ obj.E = "v1" /\ last.E = "v2"
    /\ last.len = size_of("V0_1")
    /\ last.V = "V0_2"
    /\ last.result = None

----------------------------------------------------------------------------
(* C21: the read operations are read-only *)

ReadOps == {"version", "probe_as", "as_any_probe", "probe_as_version",
            "ArchivedEvolution::version"}

\* a step in which a reader called one of the read operations, or borrowed a probe
\* from the archive (as_probe, as_specific_probe)
ReadStep ==
    \/ last' # last /\ last'.op \in ReadOps
    \/ obj.kind = "archive" /\ view = NoView /\ view' # NoView

\* what the recorded call returns when it is made again in the current state
Repeated ==
    CASE last.op = "probe_as" -> probe_as(Mem, last.len, last.V)
      [] last.op = "version" -> probe_version(last.E, last.probe, last.len)
      [] last.op = "as_any_probe" -> [probe |-> "AnyProbe", len |-> last.len]
      [] last.op = "probe_as_version" -> probe_as_version(obj, last.E, last.V)
      [] last.op = "ArchivedEvolution::version" -> ArchivedEvolution_version(obj, last.E)

\* the length a borrowed probe of the live object carries
ProbeLength == IF obj.kind = "archive" THEN pointer_metadata(obj.meta) ELSE view.len

----------------------------------------------------------------------------
(* C22: the walk of Drop for parts *)

\* the groups were visited in ascending order from the first, each dropped group ends
\* within the initialized length, and the walk stopped at the first that does not
WalkInOrder ==
    last.op = "parts drop" =>
        LET groups == last.from.groups
            len == LengthOf(last.from)
            m == Len(last.dropped)
            fits(k) == OffsetOf(Composite(groups), k) + SizeOf(VersionStruct(groups[k])) <= len
        IN /\ m <= Len(groups)
           /\ \A i \in 1..m : last.dropped[i] = i /\ fits(i)
           /\ m < Len(groups) => ~fits(m + 1)

\* every dropped group is one the constructor wrote (groups 1..n of partial_vN)
NoUninitializedDropped ==
    last.op = "parts drop" =>
        \A i \in 1..Len(last.dropped) : last.dropped[i] <= last.from.n

\* C22: dropping a parts view visits the evolution field groups in ascending version
\* order, drops a group only when offset(group) + size(group) <= the initialized length,
\* and stops at the first group that does not fit, so no group after an incomplete one
\* is dropped and no uninitialized group is ever dropped.
C22_DropWalk == WalkInOrder /\ NoUninitializedDropped

----------------------------------------------------------------------------
(* C23, C24: archiving the parts *)

\* the arms whose constant equals the length of the archived parts
MatchingArms(o) ==
    {k \in 1..Len(o.groups) : VERSION_SIZE(o.groups, k) = LengthOf(o)}

\* C24: for every Partial produced by a generated partial_vN constructor, the parts
\* length matches exactly one of the version-size arms that resolve_metadata and
\* serialize_unsized dispatch on, so the unreachable fallback arm is never taken and the
\* arm taken is the one for evolution N.
C24_ArmForEvolution ==
    (last.op = "archive" /\ last.from.groups = line) =>
        /\ Cardinality(MatchingArms(last.from)) = 1
        /\ ~last.fallback
        /\ last.arm = last.from.n

\* C23: archiving a Partial built at evolution Vn and reading the archive back through
\* the archived parts gives, for every field, the same result as the unarchived parts
\* accessor: Some(written value) for each field of evolutions 0..n and None for each
\* field of a later evolution.
C23_ArchivedRoundTrip ==
    (last.op = "archived field" /\ obj.groups = line) =>
        /\ last.result = field_accessor(obj.groups, obj.bytes, PartsLen, last.k, last.j)
        /\ IF last.k <= obj.n
           THEN last.result = Some(Constructed(last.k, last.j))
           ELSE last.result = None

----------------------------------------------------------------------------
(* C25: the length as version discriminant *)

\* the registered versions of the binding of the last probe_metadata call, other than
\* the one asked, that get the size the call returned
SameSizeAs ==
    {W \in Registered(last.E) :
        /\ VERSION(W) # last.version
        /\ probe_metadata(last.E, VERSION(W)) = last.result}

\* distinct registered versions, of any major version, get distinct sizes
C25_DistinctSizes ==
    (last.op = "probe_metadata" /\ last.result.ok) => SameSizeAs = {}

\* C25: for every Evolving binding, probe_metadata maps distinct registered versions of
\* one major version to distinct byte sizes, so the length of a probe of that major
\* version identifies at most one registered version.
C25_DistinctSizesInMajor ==
    (last.op = "probe_metadata" /\ last.result.ok) =>
        \A W \in SameSizeAs : VERSION(W).major # last.version.major

\* binding v3 was asked for (1, 0) and answered 8 bytes, the size it also gives (0, 0)
C25_Witness ==
    /\ last.op = "probe_metadata" /\ last.E = "v3"
    /\ last.version = Version(1, 0)
    /\ last.result = Ok(8)
    /\ SameSizeAs = {"V0_0"}

----------------------------------------------------------------------------
(* C26: the invariant of a Pylon built by Pylon::new *)

\* the length of the probe over the storage fits the storage, and its metadata exists
ProbeFitsStorage ==
    /\ obj.kind = "pylon" =>
          /\ Pylon_probe(obj).ok
          /\ Pylon_probe(obj).val <= size_of(obj.StorageEV)
          /\ Pylon_probe(obj).val <= Len(obj.bytes)
    /\ last.op = "drop" => last.result = "dropped"
    /\ last.op = "into_boxed_probe" => obj.kind = "box"

\* C26: every Pylon built by Pylon::new satisfies, in every reachable state until it is
\* consumed, contained_version <= StorageEV::VERSION and probe length
\* (probe_metadata(contained_version)) <= size_of(StorageEV::Archived); in particular
\* probe_metadata(contained_version) is Ok, so probe, Debug, Drop and into_boxed_probe
\* never hit the "malformed Pylon" panic.
C26_PylonInvariant ==
    /\ obj.kind = "pylon" => VersionBefore(obj.contained_version, VERSION(obj.StorageEV))
    /\ ProbeFitsStorage

----------------------------------------------------------------------------
(* C27: the first evolution is always present *)

\* the evolution a probe type's a() and b() cast to: the first of its major version
FirstOf(probe) == AccessorVersion(probe, "a")

\* the borrowed probe is of the line the data of the live object was written in
ViewOfOwnLine == PROBES_MAJOR_VERSION(view.probe) = VERSION(obj.ev).major

\* C27: every probe obtained through the safe construction paths of one line
\* (Pylon::new followed by into_boxed_probe, or an ArchivedEvolution resolved from an
\* evolution of that line) has length >= the size of the line's first evolution, so
\* field accessors that cast to the first evolution without a length check (a(), b())
\* never read past the probe's length.
C27_FirstEvolutionPresent ==
    /\ (view # NoView /\ obj.kind \in {"box", "archive"} /\ ViewOfOwnLine) =>
          /\ view.len >= SizeOf(StructOf(FirstOf(view.probe)))
          /\ view.len <= Len(obj.bytes)
    /\ (/\ last.op = "accessor" /\ last.name \in {"a", "b"}
        /\ obj.kind \in {"box", "archive"} /\ SameLine) =>
          /\ SizeOf(StructOf(AccessorVersion(last.probe, last.name))) <= last.len
          /\ last.result = Some(obj.vals[last.name])

\* a Pylon with storage for V0_2 was given a V0_0 and boxed: the probe is exactly the
\* 8 bytes of the first evolution, and b() read the written value from them
C27_Witness ==
    /\ last.op = "accessor" /\ last.name = "b"
    /\ obj.kind = "box" /\ obj.E = "v2" /\ obj.ev = "V0_0"
    /\ last.len = 8 /\ Len(obj.bytes) = 8
    /\ last.result = Some(obj.vals["b"])

----------------------------------------------------------------------------
(* C28: bindings of one line agree on sizes *)

\* the bindings that register the version token `version`
BindingsWith(version) ==
    {F \in Bindings : \E V \in Registered(F) : VERSION(V) = version}

\* C28: any two bindings of the same line (a reader compiled at v1 and a reader compiled
\* at v2) return the same probe_metadata size for every version both register, so a
\* length written by one binding is interpreted as the same evolution by the other.
C28_BindingsAgree ==
    /\ (last.op = "probe_metadata" /\ last.E \in BindingsWith(last.version)) =>
          \A F \in BindingsWith(last.version) : probe_metadata(F, last.version) = last.result
    /\ obj.kind = "box" =>
          \A F \in BindingsWith(VERSION(obj.ev)) :
              /\ probe_metadata(F, VERSION(obj.ev)) = Ok(obj.meta)
              /\ \A V \in Registered(F) :
                    (VERSION(V).major = VERSION(obj.ev).major /\ size_of(V) = obj.meta)
                        => V = obj.ev

\* binding v1 was asked for (0, 1), which v2 and v3 register too, and answered 12
C28_Witness ==
    /\ last.op = "probe_metadata" /\ last.E = "v1"
    /\ last.version = Version(0, 1)
    /\ last.result = Ok(12)
    /\ BindingsWith(last.version) = {"v1", "v2", "v3"}

----------------------------------------------------------------------------
(* C29: the write of Pylon::new into its uninitialized storage *)

\* C29: Pylon::new moves the supplied value into the uninitialized storage without
\* running a destructor on, or otherwise reading, the storage's prior uninitialized
\* contents.
C29_NoPriorDrop ==
    last.op = "Pylon::new" => last.prior_drops = 0

----------------------------------------------------------------------------
(* C30: collect_versions *)

\* the fields of the declaration the last call was given
Declared == last.fields.named

\* the version a field is declared to belong to: its own attribute, or else the
\* attribute of the nearest preceding field that has one
DeclaredVersion(i) ==
    LET j == CHOOSE j \in 1..i :
                 /\ Declared[j] # << >>
                 /\ \A k \in (j + 1)..i : Declared[k] = << >>
    IN Declared[j][1]

\* the groups (by position in the result) that hold field i
GroupsOf(versions, i) ==
    {g \in 1..Len(versions) : \E n \in 1..Len(versions[g][2]) : versions[g][2][n] = i}

\* C30: collect_versions assigns each named field to exactly one version (its own
\* #[version = n] attribute, or else the version of the nearest preceding field that had
\* one), rejects a leading field with no version and a field with more than one version
\* attribute with an error, keeps declaration order inside each version group, and
\* returns the groups sorted by ascending version with no version appearing twice.
C30_CollectVersions ==
    (last.op = "collect_versions" /\ last.fields.shape = "Named") =>
        /\ (Len(Declared) > 0 /\ Declared[1] = << >>) => ~last.result.ok
        /\ (\E i \in 1..Len(Declared) : Len(Declared[i]) > 1) => ~last.result.ok
        /\ last.result.ok =>
              LET versions == last.result.val
              IN /\ \A i \in 1..Len(Declared) :
                        /\ Cardinality(GroupsOf(versions, i)) = 1
                        /\ \A g \in GroupsOf(versions, i) : versions[g][1] = DeclaredVersion(i)
                 /\ \A g \in 1..Len(versions) :
                        /\ \A n \in 1..Len(versions[g][2]) : versions[g][2][n] \in 1..Len(Declared)
                        /\ \A n \in 1..(Len(versions[g][2]) - 1) :
                               versions[g][2][n] < versions[g][2][n + 1]
                 /\ \A g \in 1..(Len(versions) - 1) : versions[g][1] < versions[g + 1][1]

\* fields declared as version 1, version 0, then one more with no attribute: the groups
\* come back as version 0 with the second and third field, then version 1 with the first
C30_Witness ==
    /\ last.op = "collect_versions"
    /\ Declared = <<(<<1>>), (<<0>>), << >>>>
    /\ last.result = Ok(<<(<<0, <<2, 3>>>>), (<<1, <<1>>>>)>>)

====
